---- MODULE Spec2Model ----
(***************************************************************************)
(* Model of the instrument-communication core of RxLab-Instruments         *)
(* (labinstruments/generic.py): GenericInstrument over a TCP stream socket *)
(* and the Telnet classes (GenericInstrumentTelnet, microlambda.YigFilter, *)
(* YigSynthesizer), together with the instrument and the byte stream       *)
(* between the two.                                                        *)
(*                                                                         *)
(* A byte stream is a sequence of ranges [id, lo, hi, n, nl]: bytes        *)
(* lo..hi-1 of the reply to command number id, a reply of n bytes.  With   *)
(* nl the last byte of the reply, at position n-1, is its line terminator; *)
(* no other byte of a reply is white space.                                *)
(***************************************************************************)
EXTENDS Integers, Sequences, FiniteSets, TLC

VARIABLES
    variant,    \* the class: "socket" (GenericInstrument) or one of TelnetClasses
    obj,        \* the driver object: "none" | "init" (in __init__) | "ready" | "failed"
    sock,       \* the socket self._inst, or the session self._tn:
                \* "none" | "created" | "open" | "closed"
    timeout,    \* whether the socket has a timeout (settimeout(), Telnet(timeout=3))
    peer,       \* instrument's end of the connection: "up" | "fin" | "reset"
    rcvbuf,     \* reply bytes the instrument has written and no recv has returned
    nsent,      \* command lines written to the channel so far
    th,         \* th[t]: the call thread t is executing
    seen,       \* the completed calls: which functions, and how each ended
    last,       \* the call completed last, with what it returned
    idstr,      \* self._id_str
    ncalls,     \* calls started so far
    frame,      \* one message on its way through the framer: the text, the
                \* bytes written, the bytes received and what the call returned
    other,      \* the second object of a program that has two connections
    drv         \* the call of an instrument driver (Keithley2602,
                \* RohdeSchwarzFSVA40, Siglent) in progress, and what it has done

\* What the calls on one connection leave alone.
aux == <<frame, other, drv>>

vars == <<variant, obj, sock, timeout, peer, rcvbuf, nsent, th, seen, last,
          idstr, ncalls, frame, other, drv>>

\* No message in the framer, no second connection.
NoFrame == [pc |-> "none"]

NoOther == [obj |-> "none"]

\* No driver call.
NoDrv == [pc |-> "none"]

\* ---------------------------------------------------------------- bounds

\* Calls of the core (_send, _receive, _receive_all, _query, get_id, close)
\* made on one object after constructing it; get_trace makes two pairs.
MaxCalls == 3

\* Calls made after construction by a program that has two objects, on
\* the two together.
MaxCallsTwo == 2

\* recv(1024): the capacity of one receive call.
BUFF_SIZE == 1024

\* Replies the instrument may give: total length in bytes, and whether the
\* last byte is a line terminator.
Replies ==
    { [n |-> 6,    nl |-> TRUE],
      [n |-> 2048, nl |-> TRUE],
      [n |-> 2548, nl |-> FALSE] }

\* Sizes of a short read: the bytes that have arrived when recv returns
\* although more of the stream is still on its way.
ShortReads == {500}

\* Replies of an instrument on Telnet, shorter and longer than the 50 bytes
\* one read_some() asks of the socket.
TnReplies ==
    { [n |-> 6,  nl |-> TRUE],
      [n |-> 60, nl |-> TRUE] }

\* The lines a Telnet session shows before the first command is sent: -k
\* numbers the k-th line.
BannerLines == 4

BannerLine == [n |-> 20, nl |-> TRUE]

TelnetClasses == {"GenericInstrumentTelnet", "YigFilter", "YigSynthesizer"}

\* An instrument that does not answer: no byte of a reply is ever written.
NoReply == [n |-> 0, nl |-> FALSE]

\* The timeout argument of __init__: None (the default), 0, and 3 seconds.
TimeoutArgs == {"None", "0", "3"}

\* __init__: "if timeout: self._inst.settimeout(timeout)".
SetTimeout(arg) == arg \notin {"None", "0"}

\* The reply to *IDN? fits one receive call.
IdReplies == {r \in Replies : r.n = 6}

\* All bytes of reply r to command id.
Whole(id, r) == <<[id |-> id, lo |-> 0, hi |-> r.n, n |-> r.n, nl |-> r.nl]>>

\* ---------------------------------------------------------------- byte streams

Min(a, b) == IF a <= b THEN a ELSE b

RECURSIVE StreamLen(_)
StreamLen(s) ==
    IF s = <<>> THEN 0 ELSE (Head(s).hi - Head(s).lo) + StreamLen(Tail(s))

\* Concatenation; two ranges that continue each other are one range.
Cat(a, b) ==
    IF a = <<>> THEN b
    ELSE IF b = <<>> THEN a
    ELSE LET x == a[Len(a)]
             y == b[1]
         IN  IF x.id = y.id /\ x.hi = y.lo
             THEN SubSeq(a, 1, Len(a) - 1) \o <<[x EXCEPT !.hi = y.hi]>> \o Tail(b)
             ELSE a \o b

\* The first k bytes of s (k <= StreamLen(s)).
RECURSIVE Take(_, _)
Take(s, k) ==
    IF k = 0 \/ s = <<>> THEN <<>>
    ELSE LET x == Head(s)
             m == x.hi - x.lo
         IN  IF m <= k THEN <<x>> \o Take(Tail(s), k - m)
             ELSE <<[x EXCEPT !.hi = x.lo + k]>>

\* s without its first k bytes.
RECURSIVE Drop(_, _)
Drop(s, k) ==
    IF k = 0 \/ s = <<>> THEN s
    ELSE LET x == Head(s)
             m == x.hi - x.lo
         IN  IF m <= k THEN Drop(Tail(s), k - m)
             ELSE <<[x EXCEPT !.lo = x.lo + k]>> \o Tail(s)

\* ---------------------------------------------------------------- framer

\* Whether byte p of the reply range x belongs to is white space.
IsSpace(x, p) == x.nl /\ p = x.n - 1

\* str.strip(): leading and trailing white space removed, the rest kept.
RECURSIVE LStrip(_)
LStrip(s) ==
    IF s = <<>> THEN s
    ELSE LET x == Head(s)
         IN  IF IsSpace(x, x.lo)
             THEN IF x.hi - x.lo = 1 THEN LStrip(Tail(s))
                  ELSE LStrip(<<[x EXCEPT !.lo = x.lo + 1]>> \o Tail(s))
             ELSE s

RECURSIVE RStrip(_)
RStrip(s) ==
    IF s = <<>> THEN s
    ELSE LET x == s[Len(s)]
             front == SubSeq(s, 1, Len(s) - 1)
         IN  IF IsSpace(x, x.hi - 1)
             THEN IF x.hi - x.lo = 1 THEN RStrip(front)
                  ELSE RStrip(front \o <<[x EXCEPT !.hi = x.hi - 1]>>)
             ELSE s

Strip(s) == LStrip(RStrip(s))

\* ---------------------------------------------------------------- transport

\* Mutant: send does not notice that the socket is closed.
SendErrIgnoresClose(s, p) ==
    IF p = "reset" THEN "ConnectionResetError" ELSE "none"

\* socket.send on the socket in state s towards a peer in state p: the
\* exception it raises ("none": the bytes are accepted).
SendErr(s, p) ==
    IF s = "closed" THEN "OSError"
    ELSE IF p = "reset" THEN "ConnectionResetError"
    ELSE "none"

\* Mutant: a socket that does not block, recv returning at once.
RecvReadyNonBlocking == TRUE

\* socket.recv(1024) returns, or raises, without waiting for the peer.
RecvReady ==
    \/ sock = "closed"
    \/ peer = "reset"
    \/ rcvbuf # <<>>
    \/ peer = "fin"

RecvErr(s, p) ==
    IF s = "closed" THEN "OSError"
    ELSE IF p = "reset" THEN "ConnectionResetError"
    ELSE "none"

\* Bytes one recv(1024) returns when avail bytes have arrived.
RecvSize(avail) == Min(BUFF_SIZE, avail)

\* How many of the bytes the instrument has written have arrived when recv
\* returns: all of them, those up to the end of the first reply or line, or
\* a shorter first segment.
Arrived ==
    {StreamLen(rcvbuf)}
        \cup {k \in ShortReads : k < StreamLen(rcvbuf)}
        \cup {rcvbuf[i].hi - rcvbuf[i].lo : i \in {1} \cap DOMAIN rcvbuf}

RecvPart(avail) == Take(rcvbuf, RecvSize(avail))

\* Mutant: closing a closed socket raises.
CloseErrOnClosed(s) == IF s = "closed" THEN "OSError" ELSE "none"

\* socket.close(): the exception it raises on a socket in state s, and the
\* state it leaves.
CloseErr(s) == "none"

CloseState(s) == "closed"

\* The error kinds of the design (TransportError, TimeoutError, ...) the
\* exceptions of the Python library stand for.
Kind(err) ==
    CASE err = "none" -> "none"
      [] err \in {"OSError", "ConnectionResetError", "BrokenPipeError"} -> "TransportError"
      [] err = "socket.error" -> "TransportError"
      [] err = "socket.gaierror" -> "ConnectionError"
      [] err = "socket.timeout" -> "TimeoutError"
      [] err = "UnicodeEncodeError" -> "EncodingError"
      [] OTHER -> err

\* ---------------------------------------------------------------- calls

Idle == [pc |-> "idle", op |-> "none", by |-> "none", cmd |-> 0,
         data |-> <<>>, chunks |-> <<>>, was |-> "none"]

Threads == DOMAIN th

\* A call that has begun and waits in pc.
Begin(pc, op, by, cmd) ==
    [Idle EXCEPT !.pc = pc, !.op = op, !.by = by, !.cmd = cmd, !.was = sock]

\* Mutant: the call swallows the exception and returns.
PropagateNothing(err) == "none"

\* What the caller sees when the transport raises err inside _send,
\* _receive, _receive_all or _query: none of them has a handler.
Propagate(err) == err

\* A completed call: op the core function, by its caller, cmd the number of
\* the command line it wrote (0: none), data what it returned, chunks what
\* each of its recv calls returned, err the exception it raised, was the
\* state of the socket when the call began.  (For a failed __init__, by is
\* what went wrong.)
Entry(t, op, by, cmd, data, chunks, err) ==
    [t |-> t, op |-> op, by |-> by, cmd |-> cmd, data |-> data,
     chunks |-> chunks, err |-> Propagate(err),
     was |-> IF th[t].pc = "idle" THEN sock ELSE th[t].was]

NoCall ==
    [t |-> 0, op |-> "none", by |-> "none", cmd |-> 0, data |-> <<>>,
     chunks |-> <<>>, err |-> "none", was |-> "none"]

Brief(e) == [op |-> e.op, err |-> e.err]

Record(e) ==
    /\ seen' = seen \cup {Brief(e)}
    /\ last' = e

Finish(t, e) ==
    /\ th' = [th EXCEPT ![t] = Idle]
    /\ Record(e)

\* Mutant: the line is written twice.
WrittenTwice(rs) ==
    /\ nsent' = nsent + 2
    /\ UNCHANGED <<rcvbuf, peer>>

\* The socket accepts one command line; the instrument, if it is there,
\* answers a query with one of the replies rs and stays silent on a setting
\* (rs empty).  A line written after the instrument has closed its end is
\* lost and answered by a reset.
Written(rs) ==
    /\ nsent' = nsent + 1
    /\ CASE peer = "up" /\ rs # {} ->
              \E r \in rs :
                  /\ rcvbuf' = IF r = NoReply THEN rcvbuf
                                ELSE Cat(rcvbuf, Whole(nsent + 1, r))
                  /\ UNCHANGED peer
         [] peer = "fin" ->
              /\ peer' = "reset"
              /\ rcvbuf' = <<>>
         [] OTHER -> UNCHANGED <<rcvbuf, peer>>

NotWritten == UNCHANGED <<nsent, rcvbuf, peer>>

CanCall(t, cost) ==
    /\ variant = "socket"
    /\ obj = "ready"
    /\ th[t].pc = "idle"
    /\ ncalls + cost <= (IF other = NoOther THEN MaxCalls ELSE MaxCallsTwo)
    /\ ncalls' = ncalls + cost

\* _receive(): one recv(1024), decoded and stripped.
ReceiveResult(part) == Strip(part)

\* _receive_all(): the accumulated bytes, decoded.
ReceiveAllResult(data) == data

\* Mutant: data = part, each part replacing the ones before.
AccumulateLast(data, part) == part

\* _receive_all(): data += part
Accumulate(data, part) == Cat(data, part)

\* Mutant: len(part) <= 1024, the loop ending after a full part too.
ReceiveAllDoneOnFull(part) == StreamLen(part) <= BUFF_SIZE

\* _receive_all(): the loop ends after this part.
ReceiveAllDone(part) == StreamLen(part) < BUFF_SIZE

\* get_id(): commas replaced by spaces, then stripped again.
GetIdResult(msg) == Strip(msg)

\* Mutant: the socket is an attribute of the class, one for all objects.
SocketOfTheClass(o) == [o EXCEPT !.sock = sock']

\* What __init__ and close() do to another object of the program: the
\* socket is created as an attribute of self, and nothing in the module is
\* shared between objects.
Unaffected(o) == o

\* What __init__ raises when the socket cannot be created or connected:
\* the handlers print and call sys.exit(1), and the module imports no sys.
InitFailure(outcome) == "NameError"

\* __init__: socket(), settimeout(), connect(), then get_id()'s _send.
Open(outcome) ==
    /\ variant = "socket"
    /\ obj = "none"
    /\ IF outcome = "ok"
       THEN /\ obj' = "init"
            /\ sock' = "open"
            /\ Written(IdReplies)
            /\ th' = [th EXCEPT ![1] = Begin("recv", "init", "init", nsent + 1)]
            /\ UNCHANGED <<seen, last>>
       ELSE /\ obj' = "failed"
            /\ sock' = IF outcome = "socket" THEN "none" ELSE "created"
            /\ NotWritten
            /\ Record(Entry(1, "init", outcome, 0, <<>>, <<>>, InitFailure(outcome)))
            /\ UNCHANGED th
    /\ other' = Unaffected(other)
    /\ UNCHANGED <<frame, drv, variant, timeout, idstr, ncalls>>

\* _send(msg) of a setting, as reset() does.
CallSend(t) ==
    /\ CanCall(t, 1)
    /\ LET err == SendErr(sock, peer)
       IN  /\ IF err = "none" THEN Written({}) ELSE NotWritten
           /\ Finish(t, Entry(t, "send", "caller",
                              IF err = "none" THEN nsent + 1 ELSE 0,
                              <<>>, <<>>, err))
    /\ UNCHANGED <<aux, variant, obj, sock, timeout, idstr>>

\* _query(msg) and get_id(): _send, then _receive in the next step.
CallQuery(t, op) ==
    /\ CanCall(t, 1)
    /\ LET err == SendErr(sock, peer)
       IN  IF err = "none"
           THEN /\ Written(IF op = "get_id" THEN IdReplies
                           ELSE Replies \cup {NoReply})
                /\ th' = [th EXCEPT ![t] = Begin("recv", op, "caller", nsent + 1)]
                /\ UNCHANGED <<seen, last>>
           ELSE /\ NotWritten
                /\ Finish(t, Entry(t, op, "caller", 0, <<>>, <<>>, err))
    /\ UNCHANGED <<aux, variant, obj, sock, timeout, idstr>>

\* _receive() called on its own.
CallReceive(t) ==
    /\ CanCall(t, 1)
    /\ th' = [th EXCEPT ![t] = Begin("recv", "receive", "caller", 0)]
    /\ UNCHANGED <<aux, variant, obj, sock, timeout, peer, rcvbuf, nsent, seen, last, idstr>>

\* _receive_all() called on its own.
CallReceiveAll(t) ==
    /\ CanCall(t, 1)
    /\ th' = [th EXCEPT ![t] = Begin("bulk", "receive_all", "caller", 0)]
    /\ UNCHANGED <<aux, variant, obj, sock, timeout, peer, rcvbuf, nsent, seen, last, idstr>>

\* RohdeSchwarzFSVA40.get_trace(): _send of the x query, then _receive_all.
CallGetTrace(t) ==
    /\ CanCall(t, 2)
    /\ LET err == SendErr(sock, peer)
       IN  IF err = "none"
           THEN /\ Written(Replies)
                /\ th' = [th EXCEPT ![t] = Begin("bulk", "receive_all", "trace_x", nsent + 1)]
                /\ UNCHANGED <<seen, last>>
           ELSE /\ NotWritten
                /\ Finish(t, Entry(t, "send", "trace_x", 0, <<>>, <<>>, err))
    /\ UNCHANGED <<aux, variant, obj, sock, timeout, idstr>>

\* close()
CallClose(t) ==
    /\ CanCall(t, 1)
    /\ LET err == CloseErr(sock)
       IN  /\ sock' = IF err = "none" THEN CloseState(sock) ELSE sock
           /\ Finish(t, Entry(t, "close", "caller", 0, <<>>, <<>>, err))
    /\ other' = Unaffected(other)
    /\ UNCHANGED <<frame, drv, variant, obj, timeout, peer, rcvbuf, nsent, idstr>>

\* _receive() returns or raises: the second half of _query and get_id, the
\* end of __init__, or the whole of a _receive() call.
Receive(t) ==
    /\ variant = "socket"
    /\ th[t].pc = "recv"
    /\ RecvReady
    /\ \E avail \in Arrived :
       LET c == th[t]
           err == RecvErr(sock, peer)
           part == RecvPart(avail)
           msg == IF c.op \in {"init", "get_id"}
                  THEN GetIdResult(ReceiveResult(part))
                  ELSE ReceiveResult(part)
       IN  IF err = "none"
           THEN /\ rcvbuf' = Drop(rcvbuf, StreamLen(part))
                /\ Finish(t, Entry(t, c.op, c.by, c.cmd, msg, <<part>>, err))
                /\ obj' = IF c.op = "init" THEN "ready" ELSE obj
                /\ idstr' = IF c.op = "init" THEN msg ELSE idstr
           ELSE /\ Finish(t, Entry(t, c.op, c.by, c.cmd, <<>>, <<>>, err))
                /\ obj' = IF c.op = "init" THEN "failed" ELSE obj
                /\ UNCHANGED <<rcvbuf, idstr>>
    /\ UNCHANGED <<aux, variant, sock, timeout, peer, nsent, ncalls>>

\* One pass of the loop of _receive_all(): recv(1024), append, and leave
\* the loop after a short part.  In get_trace the x values are parsed and
\* the y query is sent next.
ReceiveAllStep(t) ==
    /\ variant = "socket"
    /\ th[t].pc = "bulk"
    /\ RecvReady
    /\ \E avail \in Arrived :
       LET c == th[t]
           err == RecvErr(sock, peer)
           part == RecvPart(avail)
           data == Accumulate(c.data, part)
           chunks == Append(c.chunks, part)
           e == Entry(t, c.op, c.by, c.cmd, ReceiveAllResult(data), chunks, err)
       IN  IF err = "none"
           THEN /\ rcvbuf' = Drop(rcvbuf, StreamLen(part))
                /\ IF ReceiveAllDone(part)
                   THEN /\ Record(e)
                        /\ th' = [th EXCEPT ![t] =
                                    IF c.by = "trace_x"
                                    THEN [c EXCEPT !.pc = "send_y", !.by = "trace_y",
                                                   !.data = e.data, !.chunks = <<>>]
                                    ELSE Idle]
                   ELSE /\ th' = [th EXCEPT ![t].data = data, ![t].chunks = chunks]
                        /\ UNCHANGED <<seen, last>>
           ELSE /\ Finish(t, Entry(t, c.op, c.by, c.cmd, <<>>, c.chunks, err))
                /\ UNCHANGED rcvbuf
    /\ UNCHANGED <<aux, variant, obj, sock, timeout, peer, nsent, idstr, ncalls>>

\* get_trace(): float() of the x values (ValueError on an empty reply), then
\* _send of the y query and _receive_all.
TraceSendY(t) ==
    /\ variant = "socket"
    /\ th[t].pc = "send_y"
    /\ LET err == IF th[t].data = <<>> THEN "ValueError" ELSE SendErr(sock, peer)
       IN  IF err = "none"
           THEN /\ Written(Replies)
                /\ th' = [th EXCEPT ![t] = [th[t] EXCEPT !.pc = "bulk", !.data = <<>>,
                                                        !.cmd = nsent + 1]]
                /\ UNCHANGED <<seen, last>>
           ELSE /\ NotWritten
                /\ Finish(t, Entry(t, IF err = "ValueError" THEN "float" ELSE "send",
                                   "trace_y", 0, <<>>, <<>>, err))
    /\ UNCHANGED <<aux, variant, obj, sock, timeout, idstr, ncalls>>


\* ---------------------------------------------------------------- Telnet classes

RECURSIVE Banner(_)
Banner(k) ==
    IF k = 0 THEN <<>> ELSE Cat(Banner(k - 1), Whole(0 - (BannerLines - k + 1), BannerLine))

\* Telnet.read_some() with avail bytes arrived: one recv(50).
ReadSomeSize(avail) == Min(50, avail)

\* read_some() calls in __init__ that read the start-up lines.
StartupReads(class) == IF class = "YigFilter" THEN 4 ELSE 0

\* Telnet.write on the session in state s: self.sock is None after close().
WriteErr(s, p) ==
    IF s = "closed" THEN "AttributeError"
    ELSE IF p = "reset" THEN "ConnectionResetError"
    ELSE "none"

\* Telnet.close(): the exception it raises, and the state it leaves.
TnCloseErr(s) == "none"

TnCloseState(s) == "closed"

\* _query(): decoded, '>' removed, stripped.
TnQueryResult(part) == Strip(part)

CanCallTn(t) ==
    /\ variant \in TelnetClasses
    /\ obj = "ready"
    /\ th[t].pc = "idle"
    /\ ncalls < MaxCalls
    /\ ncalls' = ncalls + 1

\* __init__ of the Telnet classes: telnetlib.Telnet(host, 23, timeout=3), and
\* in YigFilter four read_some() for the start-up lines.  The instrument
\* shows n start-up lines.
TnOpen(outcome, n) ==
    /\ variant \in TelnetClasses
    /\ obj = "none"
    /\ IF outcome = "ok"
       THEN /\ sock' = "open"
            /\ rcvbuf' = Banner(n)
            /\ IF StartupReads(variant) > 0
               THEN /\ obj' = "init"
                    /\ th' = [th EXCEPT ![1] = Begin("startup", "init", "init", 0)]
                    /\ UNCHANGED <<seen, last>>
               ELSE /\ obj' = "ready"
                    /\ Record(Entry(1, "init", "init", 0, <<>>, <<>>, "none"))
                    /\ UNCHANGED th
       ELSE /\ obj' = "failed"
            /\ Record(Entry(1, "init", outcome, 0, <<>>, <<>>, outcome))
            /\ UNCHANGED <<sock, rcvbuf, th>>
    /\ UNCHANGED <<aux, variant, timeout, peer, nsent, idstr, ncalls>>

\* One read_some(); in __init__ its result is dropped.
TnRead(t) ==
    /\ variant \in TelnetClasses
    /\ th[t].pc \in {"startup", "read"}
    /\ RecvReady
    /\ \E avail \in Arrived :
       LET c == th[t]
           err == RecvErr(sock, peer)
           part == Take(rcvbuf, ReadSomeSize(avail))
           chunks == Append(c.chunks, part)
       IN  IF err = "none"
           THEN /\ rcvbuf' = Drop(rcvbuf, StreamLen(part))
                /\ IF c.pc = "startup" /\ Len(chunks) < StartupReads(variant)
                   THEN /\ th' = [th EXCEPT ![t].chunks = chunks]
                        /\ UNCHANGED <<seen, last, obj>>
                   ELSE /\ Finish(t, Entry(t, c.op, c.by, c.cmd,
                                           IF c.pc = "startup" THEN <<>>
                                           ELSE TnQueryResult(part),
                                           chunks, err))
                        /\ obj' = "ready"
           ELSE /\ Finish(t, Entry(t, c.op, c.by, c.cmd, <<>>, c.chunks, err))
                /\ obj' = IF c.op = "init" THEN "failed" ELSE obj
                /\ UNCHANGED rcvbuf
    /\ UNCHANGED <<aux, variant, sock, timeout, peer, nsent, idstr, ncalls>>

\* _write(msg)
TnWrite(t) ==
    /\ CanCallTn(t)
    /\ LET err == WriteErr(sock, peer)
       IN  /\ IF err = "none" THEN Written({}) ELSE NotWritten
           /\ Finish(t, Entry(t, "write", "caller",
                              IF err = "none" THEN nsent + 1 ELSE 0,
                              <<>>, <<>>, err))
    /\ UNCHANGED <<aux, variant, obj, sock, timeout, idstr>>

\* _query(msg): write, then read_some() in the next step.
TnQuery(t) ==
    /\ CanCallTn(t)
    /\ LET err == WriteErr(sock, peer)
       IN  IF err = "none"
           THEN /\ Written(TnReplies)
                /\ th' = [th EXCEPT ![t] = Begin("read", "query", "caller", nsent + 1)]
                /\ UNCHANGED <<seen, last>>
           ELSE /\ NotWritten
                /\ Finish(t, Entry(t, "query", "caller", 0, <<>>, <<>>, err))
    /\ UNCHANGED <<aux, variant, obj, sock, timeout, idstr>>

\* close()
TnClose(t) ==
    /\ CanCallTn(t)
    /\ LET err == TnCloseErr(sock)
       IN  /\ sock' = IF err = "none" THEN TnCloseState(sock) ELSE sock
           /\ Finish(t, Entry(t, "close", "caller", 0, <<>>, <<>>, err))
    /\ UNCHANGED <<aux, variant, obj, timeout, peer, rcvbuf, nsent, idstr>>

\* Mutant: the socket is closed when a receive times out.
TimeoutClosesSocket(s) == "closed"

\* The socket after recv has raised socket.timeout: nothing catches the
\* exception and nothing closes the socket.
TimeoutState(s) == s

\* ---------------------------------------------------------------- VXI-11 classes

\* GenericInstrumentVX11.__init__ evaluates self._id_str.get_id(): the
\* exception of reading the attribute _id_str, which nothing has assigned.
IdStrLookupErr == "AttributeError"

\* Keithley2280.__init__: GenericInstrumentVX11.__init__ (vxi11.Instrument,
\* which connects at the first request, then self._id_str.get_id()), then
\* ask(':OUTP?') and self.output = (the answer is '1').
KeithleyOpen ==
    /\ variant = "Keithley2280"
    /\ obj = "none"
    /\ sock' = "created"
    /\ LET err == IdStrLookupErr
       IN  IF err = "none"
           THEN /\ obj' = "ready"
                /\ nsent' = nsent + 1
                /\ Record(Entry(1, "init", "init", nsent + 1, <<>>, <<>>, err))
           ELSE /\ obj' = "failed"
                /\ UNCHANGED nsent
                /\ Record(Entry(1, "init", "init", 0, <<>>, <<>>, err))
    /\ UNCHANGED <<aux, variant, timeout, peer, rcvbuf, th, idstr, ncalls>>

\* recv with a timeout set, and nothing arrives in time: socket.timeout.
Timeout(t) ==
    /\ th[t].pc \in {"recv", "bulk", "startup", "read"}
    /\ timeout
    /\ sock = "open"
    /\ peer = "up"
    /\ sock' = TimeoutState(sock)
    /\ Finish(t, Entry(t, th[t].op, th[t].by, th[t].cmd, <<>>, th[t].chunks,
                       "socket.timeout"))
    /\ obj' = IF th[t].op = "init" THEN "failed" ELSE obj
    /\ UNCHANGED <<aux, variant, timeout, peer, rcvbuf, nsent, idstr, ncalls>>

\* ---------------------------------------------------------------- instrument

\* The instrument closes its end: what it wrote still arrives, then end of file.
PeerClose ==
    /\ obj \in {"init", "ready"}
    /\ peer = "up"
    /\ peer' = "fin"
    /\ UNCHANGED <<aux, variant, obj, sock, timeout, rcvbuf, nsent, th, seen, last,
                   idstr, ncalls>>

\* The instrument resets the connection: unread bytes are gone.
PeerReset ==
    /\ obj \in {"init", "ready"}
    /\ peer \in {"up", "fin"}
    /\ peer' = "reset"
    /\ rcvbuf' = <<>>
    /\ UNCHANGED <<aux, variant, obj, sock, timeout, nsent, th, seen, last, idstr, ncalls>>

\* ---------------------------------------------------------------- specification

InitMain(classes, n) ==
    /\ variant \in classes
    /\ obj = "none"
    /\ sock = "none"
    /\ timeout \in IF variant = "socket" THEN {SetTimeout(a) : a \in TimeoutArgs}
                    ELSE {TRUE}
    /\ peer = "up"
    /\ rcvbuf = <<>>
    /\ nsent = 0
    /\ th = [t \in 1..n |-> Idle]
    /\ seen = {}
    /\ last = NoCall
    /\ idstr = <<>>
    /\ ncalls = 0

InitWith(classes, n) ==
    /\ InitMain(classes, n)
    /\ frame = NoFrame
    /\ drv = NoDrv
    /\ other = NoOther

Init == InitWith({"socket", "Keithley2280"} \cup TelnetClasses, 1)

NextSocket ==
    \/ \E o \in {"ok", "socket", "socket.gaierror", "socket.error"} : Open(o)
    \/ \E t \in Threads : CallSend(t)
    \/ \E t \in Threads : \E op \in {"query", "get_id"} : CallQuery(t, op)
    \/ \E t \in Threads : CallReceive(t)
    \/ \E t \in Threads : CallReceiveAll(t)
    \/ \E t \in Threads : CallGetTrace(t)
    \/ \E t \in Threads : CallClose(t)
    \/ \E t \in Threads : Receive(t)
    \/ \E t \in Threads : ReceiveAllStep(t)
    \/ \E t \in Threads : TraceSendY(t)
    \/ \E t \in Threads : Timeout(t)
    \/ PeerClose
    \/ PeerReset

NextTelnet ==
    \/ \E o \in {"ok", "socket.gaierror", "socket.error"} :
           \E n \in {0, BannerLines} : TnOpen(o, n)
    \/ \E t \in Threads : TnRead(t)
    \/ \E t \in Threads : TnWrite(t)
    \/ \E t \in Threads : TnQuery(t)
    \/ \E t \in Threads : TnClose(t)

NextVxi == KeithleyOpen

Next == NextSocket \/ NextTelnet \/ NextVxi

Spec == Init /\ [][Next]_vars

\* Two threads share one GenericInstrument.
InitShared == InitWith({"socket"}, 2)

SpecShared == InitShared /\ [][NextSocket]_vars

\* ---------------------------------------------------------------- two connections

\* The connection the caller is working on, as the record kept of the one
\* it is not working on; name tells the two apart.
Current ==
    [name |-> 3 - other.name, variant |-> variant, obj |-> obj, sock |-> sock,
     timeout |-> timeout, peer |-> peer, rcvbuf |-> rcvbuf, nsent |-> nsent,
     idstr |-> idstr]

\* The caller, between two calls, turns to its other object.
Swap ==
    /\ other # NoOther
    /\ \A t \in Threads : th[t].pc = "idle"
    /\ other' = Current
    /\ variant' = other.variant
    /\ obj' = other.obj
    /\ sock' = other.sock
    /\ timeout' = other.timeout
    /\ peer' = other.peer
    /\ rcvbuf' = other.rcvbuf
    /\ nsent' = other.nsent
    /\ idstr' = other.idstr
    /\ UNCHANGED <<th, seen, last, ncalls, frame, drv>>

\* Two GenericInstrument objects, neither constructed yet.
InitTwo ==
    /\ InitMain({"socket"}, 1)
    /\ timeout
    /\ frame = NoFrame
    /\ drv = NoDrv
    /\ other = [name |-> 2, variant |-> "socket", obj |-> "none", sock |-> "none",
                timeout |-> timeout, peer |-> "up", rcvbuf |-> <<>>, nsent |-> 0,
                idstr |-> <<>>]

NextTwo ==
    \/ \E o \in {"ok", "socket.error"} : Open(o)
    \/ \E t \in Threads : CallSend(t)
    \/ \E t \in Threads : CallQuery(t, "query")
    \/ \E t \in Threads : CallReceiveAll(t)
    \/ \E t \in Threads : CallClose(t)
    \/ \E t \in Threads : Receive(t)
    \/ \E t \in Threads : ReceiveAllStep(t)
    \/ \E t \in Threads : Timeout(t)
    \/ PeerReset
    \/ Swap

SpecTwo == InitTwo /\ [][NextTwo]_vars

\* ---------------------------------------------------------------- framing, byte by byte

\* Longest command text.
MaxLen == 3

\* Characters of a text, by code point: line feed, carriage return, space,
\* comma, '>', 'A', and one character outside ASCII.
Chars == {10, 13, 32, 44, 62, 65, 233}

Texts == UNION {[1..n -> Chars] : n \in 0..MaxLen}

\* What str.strip() removes from a decoded ASCII text.
WhiteSpace == {9, 10, 11, 12, 13, 28, 29, 30, 31, 32}

RECURSIVE LStripText(_)
LStripText(s) ==
    IF s # <<>> /\ Head(s) \in WhiteSpace THEN LStripText(Tail(s)) ELSE s

RECURSIVE RStripText(_)
RStripText(s) ==
    IF s # <<>> /\ s[Len(s)] \in WhiteSpace
    THEN RStripText(SubSeq(s, 1, Len(s) - 1)) ELSE s

\* str.strip()
StripText(s) == LStripText(RStripText(s))

\* str.replace(a, b) for a single character a.
RECURSIVE ReplaceText(_, _, _)
ReplaceText(s, a, b) ==
    IF s = <<>> THEN <<>>
    ELSE (IF Head(s) = a THEN b ELSE <<Head(s)>>) \o ReplaceText(Tail(s), a, b)

\* Mutant: encode() accepts every character.
EncodeErrNever(text) == "none"

\* msg.encode('ASCII'): the exception it raises.
EncodeErr(text) ==
    IF \E i \in 1..Len(text) : text[i] >= 128 THEN "UnicodeEncodeError" ELSE "none"

\* _send: msg + '\n'; _write and the Telnet _query: msg + "\r\n".
Terminator(class) == IF class = "socket" THEN <<10>> ELSE <<13, 10>>

\* The bytes of the line: ASCII encodes each character as its code point.
Encoded(class, text) == text \o Terminator(class)

\* The read paths: what each returns for the bytes raw of one receive.
Decode(path, raw) ==
    CASE path = "_receive"     -> StripText(raw)
      [] path = "_receive_all" -> raw
      [] path = "get_id"       -> StripText(ReplaceText(StripText(raw), 44, <<32>>))
      [] path = "_query"       -> StripText(ReplaceText(raw, 62, <<>>))

ReadPaths(class) ==
    IF class = "socket" THEN {"_receive", "_receive_all", "get_id"} ELSE {"_query"}

\* The variables of the connection.
conn == <<variant, obj, sock, timeout, peer, rcvbuf, th, seen, last, idstr, ncalls>>

\* _send(msg) / _write(msg): encode, then write the line.
FrameSend ==
    /\ frame.pc = "start"
    /\ LET err == EncodeErr(frame.text)
       IN  IF err = "none"
           THEN /\ frame' = [frame EXCEPT !.pc = "sent",
                                          !.wire = Encoded(variant, frame.text)]
                /\ nsent' = nsent + 1
           ELSE /\ frame' = [frame EXCEPT !.pc = "done", !.err = err]
                /\ UNCHANGED nsent
    /\ UNCHANGED <<conn, other, drv>>

\* The instrument sends back the bytes it received.
FrameLoopback ==
    /\ frame.pc = "sent"
    /\ frame' = [frame EXCEPT !.pc = "echoed", !.raw = frame.wire]
    /\ UNCHANGED <<conn, nsent, other, drv>>

\* One of the read paths receives the bytes and returns.
FrameReceive(path) ==
    /\ frame.pc = "echoed"
    /\ path \in ReadPaths(variant)
    /\ frame' = [frame EXCEPT !.pc = "done", !.path = path,
                              !.out = Decode(path, frame.raw)]
    /\ UNCHANGED <<conn, nsent, other, drv>>

InitFraming ==
    /\ variant \in {"socket", "GenericInstrumentTelnet"}
    /\ obj = "ready"
    /\ sock = "open"
    /\ timeout = FALSE
    /\ peer = "up"
    /\ rcvbuf = <<>>
    /\ nsent = 0
    /\ th = [t \in 1..1 |-> Idle]
    /\ seen = {}
    /\ last = NoCall
    /\ idstr = <<>>
    /\ ncalls = 0
    /\ frame \in {[pc |-> "start", text |-> x, wire |-> <<>>, raw |-> <<>>,
                    path |-> "none", out |-> <<>>, err |-> "none"] : x \in Texts}
    /\ other = NoOther
    /\ drv = NoDrv

NextFraming ==
    \/ FrameSend
    \/ FrameLoopback
    \/ \E path \in {"_receive", "_receive_all", "get_id", "_query"} : FrameReceive(path)

SpecFraming == InitFraming /\ [][NextFraming]_vars

\* ---------------------------------------------------------------- instrument drivers

\* A constructed driver object of class, lines written by its __init__, on
\* an open connection to an instrument that is there; no call made yet.
InitDriver(class, lines) ==
    /\ variant = class
    /\ obj = "ready"
    /\ sock = "open"
    /\ timeout = FALSE
    /\ peer = "up"
    /\ rcvbuf = <<>>
    /\ nsent = lines
    /\ th = [t \in 1..1 |-> Idle]
    /\ seen = {}
    /\ last = NoCall
    /\ idstr = <<>>
    /\ ncalls = 0
    /\ frame = NoFrame
    /\ other = NoOther

\* ---- Keithley2602

\* Currents are counted in steps of 50 mA; the largest one asked for.
MaxCurrent == 4

\* set_current1 / set_current2 calls made on one object.
MaxSets == 2

Currents == (0 - 2)..MaxCurrent

\* current_limit=0.150, in steps of 50 mA.
DefaultLimit == 3

\* Mutant: the current asked for is sent as it is.
ClampNone(current, current_limit) == current

\* "if current > current_limit: current = current_limit"
Clamp(current, current_limit) ==
    IF current > current_limit THEN current_limit ELSE current

\* The attribute set_current1 (channel A) and set_current2 (channel B) write.
SourceLevel(ch) == IF ch = 1 THEN "smua.source.leveli" ELSE "smub.source.leveli"

\* set_current1(current, current_limit) for ch = 1, set_current2 for ch = 2.
SetCurrent(ch, current, current_limit) ==
    /\ variant = "Keithley2602"
    /\ drv.n < MaxSets
    /\ drv' = [pc |-> "done", n |-> drv.n + 1, ch |-> ch, current |-> current,
               limit |-> current_limit,
               lines |-> <<[cmd |-> SourceLevel(ch),
                            val |-> Clamp(current, current_limit)]>>]
    /\ nsent' = nsent + 1
    /\ UNCHANGED <<conn, frame, other>>

\* __init__ has written the two nplc settings.
InitKeithley2602 ==
    /\ InitDriver("Keithley2602", 2)
    /\ drv = [pc |-> "idle", n |-> 0, ch |-> 0, current |-> 0, limit |-> 0,
              lines |-> <<>>]

NextKeithley2602 ==
    \E ch \in {1, 2} : \E current \in Currents :
        \E current_limit \in Currents \cup {DefaultLimit} :
            SetCurrent(ch, current, current_limit)

SpecKeithley2602 == InitKeithley2602 /\ [][NextKeithley2602]_vars

\* ---- replies that carry a number

\* The reply to command id with the number v: one byte of text, then the
\* line terminator.
NumberReply(id, v) ==
    <<[id |-> id, lo |-> 0, hi |-> 2, n |-> 2, nl |-> TRUE, v |-> v]>>

\* Bytes that have arrived when recv returns: all that was written, or the
\* first one or two of them.
DrvArrived ==
    {StreamLen(rcvbuf)} \cup {k \in {1, 2} : k < StreamLen(rcvbuf)}

\* int(msg) / float(msg) of the stripped text: the number, when the text is
\* that of one reply, whole; ValueError for an empty text, and for a text
\* with a line terminator inside.
ParseNumber(data) ==
    IF Len(data) = 1 /\ data[1].lo = 0 /\ data[1].hi = data[1].n - 1
    THEN [err |-> "none", val |-> data[1].v]
    ELSE [err |-> "ValueError", val |-> 0]

\* One line of a driver's call: the command and its number (0: none).
Line(cmd, arg) == [cmd |-> cmd, arg |-> arg]

\* A receive call, in the record of what a driver's call did.
Recv == Line("recv", 0)

\* ---- RohdeSchwarzFSVA40.sweep

\* The largest sweep count asked for, and reported by the instrument.
MaxCount == 2

\* Passes of the loop of wait() while the count has not been reached.
MaxPolls == 3

\* sweep(): the four settings it sends, in order.
SweepCommands(count) ==
    <<Line("SWE:COUN", count), Line("SWE:CONT OFF", 0),
      Line("SYST:DISP:UPD ON", 0), Line("INIT", 0)>>

\* get_count(): the query of one poll.
PollQuery == Line("SWE:COUN:CURR?", 0)

\* Mutant: the loop goes on while current_count <= count.
WaitGoesOnAtCount(current_count, count) == current_count <= count

\* wait(): "while current_count < count"
WaitGoesOn(current_count, count) == current_count < count

\* sweep(count, wait) is called.
SweepCall(count, wait) ==
    /\ variant = "RohdeSchwarzFSVA40"
    /\ drv.pc = "idle"
    /\ drv' = [drv EXCEPT !.pc = "send", !.count = count, !.wait = wait]
    /\ UNCHANGED <<conn, nsent, frame, other>>

\* sweep(): the next of its four _send calls; then wait(), or the return.
SweepSend ==
    /\ drv.pc = "send"
    /\ LET k == Len(drv.lines) + 1
           lines == Append(drv.lines, SweepCommands(drv.count)[k])
       IN  /\ drv' = [drv EXCEPT !.lines = lines,
                                 !.pc = IF k < 4 THEN "send"
                                        ELSE IF drv.wait THEN "wait" ELSE "done",
                                 !.how = IF k = 4 /\ ~drv.wait THEN "None" ELSE @]
           /\ nsent' = nsent + 1
    /\ UNCHANGED <<conn, frame, other>>

\* wait(): the loop test holds, and get_count() sends its query; the
\* instrument answers with the sweeps it has made.
PollSend ==
    /\ drv.pc = "wait"
    /\ WaitGoesOn(drv.cur, drv.count)
    /\ drv.polls < MaxPolls
    /\ \E v \in 0..MaxCount :
           rcvbuf' = Cat(rcvbuf, NumberReply(nsent + 1, v))
    /\ nsent' = nsent + 1
    /\ drv' = [drv EXCEPT !.pc = "recv", !.polls = @ + 1,
                          !.lines = Append(@, PollQuery)]
    /\ UNCHANGED <<variant, obj, sock, timeout, peer, th, seen, last, idstr, ncalls,
                   frame, other>>

\* get_count(): _receive() and int() of what it returns.
PollReceive ==
    /\ drv.pc = "recv"
    /\ variant = "RohdeSchwarzFSVA40"
    /\ rcvbuf # <<>>
    /\ \E avail \in DrvArrived :
       LET part == RecvPart(avail)
           res == ParseNumber(ReceiveResult(part))
       IN  /\ rcvbuf' = Drop(rcvbuf, StreamLen(part))
           /\ drv' = [drv EXCEPT !.lines = Append(@, Recv),
                                 !.cur = IF res.err = "none" THEN res.val ELSE @,
                                 !.pc = IF res.err = "none" THEN "wait" ELSE "done",
                                 !.how = IF res.err = "none" THEN @ ELSE res.err]
    /\ UNCHANGED <<variant, obj, sock, timeout, peer, nsent, th, seen, last, idstr,
                   ncalls, frame, other>>

\* wait(): the loop test fails, "return count".
SweepReturn ==
    /\ drv.pc = "wait"
    /\ ~WaitGoesOn(drv.cur, drv.count)
    /\ drv' = [drv EXCEPT !.pc = "done", !.how = "value", !.ret = drv.count]
    /\ UNCHANGED <<conn, nsent, frame, other>>

\* GenericInstrument.__init__ has sent *IDN? and read the reply.
InitSweep ==
    /\ InitDriver("RohdeSchwarzFSVA40", 1)
    /\ drv = [pc |-> "idle", count |-> 0, wait |-> TRUE, cur |-> 0, polls |-> 0,
              lines |-> <<>>, how |-> "running", ret |-> 0]

NextSweep ==
    \/ \E count \in (0 - 1)..MaxCount : \E wait \in BOOLEAN : SweepCall(count, wait)
    \/ SweepSend
    \/ PollSend
    \/ PollReceive
    \/ SweepReturn

\* The steps of the call are taken as long as they can be: the program
\* runs, and recv returns once bytes have arrived.
SpecSweep ==
    /\ InitSweep
    /\ [][NextSweep]_vars
    /\ WF_vars(SweepSend)
    /\ WF_vars(PollSend)
    /\ WF_vars(PollReceive)
    /\ WF_vars(SweepReturn)

\* ---- Siglent.measure_rms_voltage

\* The largest average asked for.
MaxAverage == 3

\* The voltages the oscilloscope reports.
Voltages == {1, 2}

\* 'PACU RMS,C{}' and "C{}:PAVA? RMS" for the channel.
ModeCommand(channel) == Line("PACU RMS,C", channel)

RmsQuery(channel) == Line("C:PAVA? RMS", channel)

\* "rms_voltage / average": the quotient, or the exception of dividing by 0.
DivideErr(average) == IF average = 0 THEN "ZeroDivisionError" ELSE "none"

\* measure_rms_voltage(channel, average) is called: _send of the mode.
RmsCall(channel, average) ==
    /\ variant = "Siglent"
    /\ drv.pc = "idle"
    /\ drv' = [drv EXCEPT !.pc = "loop", !.channel = channel, !.average = average,
                          !.lines = <<ModeCommand(channel)>>]
    /\ nsent' = nsent + 1
    /\ UNCHANGED <<conn, frame, other>>

\* "for _ in range(average)": the next pass sends its query; the
\* oscilloscope answers with a voltage.
RmsSend ==
    /\ variant = "Siglent"
    /\ drv.pc = "loop"
    /\ drv.i < drv.average
    /\ \E v \in Voltages :
           /\ rcvbuf' = Cat(rcvbuf, NumberReply(nsent + 1, v))
           /\ drv' = [drv EXCEPT !.pc = "recv", !.told = @ + v,
                                 !.lines = Append(@, RmsQuery(drv.channel))]
    /\ nsent' = nsent + 1
    /\ UNCHANGED <<variant, obj, sock, timeout, peer, th, seen, last, idstr, ncalls,
                   frame, other>>

\* _receive(), float() of the text after the last comma, and the sum.
RmsReceive ==
    /\ variant = "Siglent"
    /\ drv.pc = "recv"
    /\ rcvbuf # <<>>
    /\ \E avail \in DrvArrived :
       LET part == RecvPart(avail)
           res == ParseNumber(ReceiveResult(part))
       IN  /\ rcvbuf' = Drop(rcvbuf, StreamLen(part))
           /\ drv' = [drv EXCEPT !.lines = Append(@, Recv),
                                 !.i = @ + 1,
                                 !.sum = IF res.err = "none" THEN @ + res.val ELSE @,
                                 !.pc = IF res.err = "none" THEN "loop" ELSE "done",
                                 !.how = IF res.err = "none" THEN @ ELSE res.err]
    /\ UNCHANGED <<variant, obj, sock, timeout, peer, nsent, th, seen, last, idstr,
                   ncalls, frame, other>>

\* "return rms_voltage / average", the quotient kept as its two numbers.
RmsReturn ==
    /\ variant = "Siglent"
    /\ drv.pc = "loop"
    /\ drv.i >= drv.average
    /\ LET err == DivideErr(drv.average)
       IN  drv' = [drv EXCEPT !.pc = "done",
                              !.how = IF err = "none" THEN "value" ELSE err,
                              !.ret = IF err = "none"
                                      THEN [num |-> drv.sum, den |-> drv.average]
                                      ELSE @]
    /\ UNCHANGED <<conn, nsent, frame, other>>

\* Siglent.__init__ writes nothing.
InitSiglent ==
    /\ InitDriver("Siglent", 0)
    /\ drv = [pc |-> "idle", channel |-> 0, average |-> 0, i |-> 0, sum |-> 0,
              told |-> 0, lines |-> <<>>, how |-> "running",
              ret |-> [num |-> 0, den |-> 0]]

NextSiglent ==
    \/ \E channel \in {1, 2} : \E average \in (0 - 1)..MaxAverage :
           RmsCall(channel, average)
    \/ RmsSend
    \/ RmsReceive
    \/ RmsReturn

SpecSiglent == InitSiglent /\ [][NextSiglent]_vars

\* ---------------------------------------------------------------- properties

\* The sizes of the parts a call received.
Sizes(chunks) == [i \in 1..Len(chunks) |-> StreamLen(chunks[i])]

\* The parts a call received, joined in arrival order.
RECURSIVE Join(_)
Join(chunks) ==
    IF chunks = <<>> THEN <<>>
    ELSE Cat(Join(SubSeq(chunks, 1, Len(chunks) - 1)), chunks[Len(chunks)])

\* The text of the reply to command id, all of it and nothing else: every
\* byte of the reply but its line terminator.
IsReplyTo(data, id) ==
    /\ Len(data) = 1
    /\ data[1].id = id
    /\ data[1].lo = 0
    /\ data[1].hi = IF data[1].nl THEN data[1].n - 1 ELSE data[1].n

\* Every completed call so far is one of ops and raised nothing, and the
\* instrument is still connected.
OnlyCalls(ops) ==
    /\ peer = "up"
    /\ \A e \in seen : e.op \in ops /\ e.err = "none"

\* Reply bytes not yet returned by any receive.
PendingReply == \E i \in 1..Len(rcvbuf) : rcvbuf[i].id >= 1

\* C1: queries issued one after another on one open connection to an
\* instrument that answers every command each return the whole reply to
\* their own command, and no byte of the reply to another command.
C1_QueryReturnsOwnReply ==
    (variant = "socket" /\ OnlyCalls({"init", "query"})
        /\ last.op = "query" /\ last.err = "none")
    => IsReplyTo(last.data, last.cmd)

\* C2: whenever a command line is written, no byte of the reply to an
\* earlier query is still unread on the connection.
C2_NoPendingReplyAtSend ==
    [][(nsent' > nsent
            /\ OnlyCalls({"init", "send", "query", "get_id", "receive_all", "write"}))
        => ~PendingReply]_vars

StopsAtFirstShort(chunks) ==
    /\ chunks # <<>>
    /\ \A i \in 1..Len(chunks) :
           IF i < Len(chunks) THEN StreamLen(chunks[i]) = BUFF_SIZE
           ELSE StreamLen(chunks[i]) < BUFF_SIZE

\* C4: _receive_all goes on receiving while every part is exactly 1024
\* bytes, returns after the first part shorter than 1024 bytes (an empty one
\* too), and returns all parts up to that one joined in order.
C4_BulkReadStopsAtFirstShort ==
    /\ \A t \in Threads :
           th[t].pc = "bulk" =>
               /\ \A i \in 1..Len(th[t].chunks) : StreamLen(th[t].chunks[i]) = BUFF_SIZE
               /\ th[t].data = Join(th[t].chunks)
    /\ (last.op = "receive_all" /\ last.err = "none") =>
           /\ StopsAtFirstShort(last.chunks)
           /\ last.data = Join(last.chunks)

C4_Witness ==
    /\ last.op = "receive_all"
    /\ last.err = "none"
    /\ Sizes(last.chunks) = <<BUFF_SIZE, 500>>

\* Thread t is in _receive_all, every part so far was exactly 1024 bytes,
\* and the connection is idle: open, nothing to read, the instrument there.
BlockedBulk(t) ==
    /\ th[t].pc = "bulk"
    /\ th[t].chunks # <<>>
    /\ \A i \in 1..Len(th[t].chunks) : StreamLen(th[t].chunks[i]) = BUFF_SIZE
    /\ sock = "open"
    /\ peer = "up"
    /\ rcvbuf = <<>>

\* C5: a bulk read that has received only full parts stays in its receive
\* call while the connection is idle; it leaves it only by a timeout, which
\* must be set and ends the call with socket.timeout instead of a reply, and
\* it returns a reply only when a receive returns fewer than 1024 bytes.
C5_BulkReadBlocksOnExactMultiple ==
    [][\A t \in Threads :
        /\ BlockedBulk(t) =>
              \/ th'[t] = th[t]
              \/ timeout /\ th'[t] = Idle /\ last'.err = "socket.timeout"
                         /\ last'.data = <<>>
        /\ (th[t].pc = "bulk" /\ th'[t].pc # "bulk" /\ last'.err = "none") =>
              /\ ~BlockedBulk(t)
              /\ StreamLen(last'.chunks[Len(last'.chunks)]) < BUFF_SIZE]_vars

C5_Witness ==
    /\ BlockedBulk(1)
    /\ ~timeout
    /\ StreamLen(th[1].data) = 2 * BUFF_SIZE

\* C6: when two threads share one connection, every query returns the reply
\* to its own command (the replies here are short and arrive whole, so that
\* only the interleaving of the calls can mix them).
C6_SharedQueryReturnsOwnReply ==
    (OnlyCalls({"init", "query"}) /\ last.op = "query" /\ last.err = "none"
        /\ \A i \in 1..Len(last.chunks[1]) :
               last.chunks[1][i].n < BUFF_SIZE /\ last.chunks[1][i].lo = 0)
    => IsReplyTo(last.data, last.cmd)

\* C7: a connection in use is OPEN or CLOSED, and after a call has failed
\* with a TransportError that tells of the remote end being gone, the
\* connection is CLOSED.
C7_ClosedAfterTransportError ==
    (variant = "socket" /\ obj = "ready") =>
        /\ sock \in {"open", "closed"}
        /\ (last.err \in {"ConnectionResetError", "BrokenPipeError"}) => sock = "closed"

\* C8: when the connection cannot be set up, open raises ConnectionError
\* (the address does not resolve) or TransportError (refused, timed out),
\* there is no usable connection and nothing has been written.
C8_OpenFailureIsReported ==
    (obj = "failed" /\ last.op = "init"
        /\ last.by \in {"socket.gaierror", "socket.error"}) =>
        /\ Kind(last.err) = IF last.by = "socket.gaierror" THEN "ConnectionError"
                            ELSE "TransportError"
        /\ sock # "open"
        /\ nsent = 0

\* C9: close() never raises, whatever the state of the connection and
\* however often it was called before, and leaves the connection CLOSED,
\* on the socket class and on the Telnet classes.
C9_CloseIsIdempotent ==
    /\ last.op = "close" => (last.err = "none" /\ sock = "closed")
    /\ \A e \in seen : e.op = "close" => e.err = "none"

C9_Witness ==
    /\ variant = "GenericInstrumentTelnet"
    /\ last.op = "close"
    /\ last.was = "closed"
    /\ ncalls = 3

\* C10: on a GenericInstrument that has been closed, _send, _query, get_id,
\* get_trace, _receive and _receive_all raise OSError (a TransportError),
\* write nothing and return nothing; nothing is written while the
\* connection is CLOSED, and a CLOSED connection stays CLOSED.
C10_UseAfterCloseFails ==
    /\ [](variant = "socket" =>
            /\ (last.was = "closed" /\ last.op # "close") =>
                   /\ last.err = "OSError"
                   /\ Kind(last.err) = "TransportError"
                   /\ last.cmd = 0
                   /\ last.data = <<>>
            /\ \A t \in Threads : th[t].was = "closed" => th[t].cmd = 0)
    /\ [][(variant = "socket" /\ sock = "closed") =>
            (sock' = "closed" /\ nsent' = nsent)]_vars

C10_Witness ==
    /\ variant = "socket"
    /\ last.op = "receive_all"
    /\ last.by = "caller"
    /\ last.was = "closed"
    /\ last.err = "OSError"
    /\ {"close", "query"} \subseteq {e.op : e \in seen}

\* C11: on a connection that has a timeout, a query the instrument does not
\* answer can end, and a receive ends with socket.timeout (a TimeoutError)
\* only where a timeout is set; the connection is as OPEN after the timeout
\* as it was before, and a command or query made after it is written to the
\* channel.  A timeout argument of None or 0 sets no timeout.
C11_TimeoutLeavesOpen ==
    /\ [](/\ ~SetTimeout("None") /\ ~SetTimeout("0") /\ SetTimeout("3")
          /\ \A e \in seen : e.err = "socket.timeout" => timeout
          /\ last.err = "socket.timeout" =>
                 (/\ Kind(last.err) = "TimeoutError"
                  /\ sock = "open"
                  /\ last.op # "init" => last.was = "open")
          /\ \A t \in Threads :
                 (timeout /\ th[t].pc = "recv" /\ sock = "open" /\ peer = "up")
                     => ENABLED Timeout(t))
    /\ [][\A t \in Threads :
            (variant = "socket" /\ last.err = "socket.timeout" /\ last.op = "query"
                /\ peer = "up"
                /\ (CallSend(t) \/ CallQuery(t, "query") \/ CallQuery(t, "get_id")))
            => (nsent' = nsent + 1 /\ last'.err # "OSError")]_vars

C11_Witness ==
    /\ variant = "socket"
    /\ [op |-> "query", err |-> "socket.timeout"] \in seen
    /\ last.op = "send"
    /\ last.err = "none"
    /\ last.cmd = 3
    /\ rcvbuf = <<>>

\* A call of thread t that writes a command line begins in this step.
Sends(t) ==
    \/ CallSend(t)
    \/ CallQuery(t, "query")
    \/ CallQuery(t, "get_id")
    \/ TnWrite(t)
    \/ TnQuery(t)

\* The exception the transport raises on a write in this state.
TransportSendErr ==
    IF variant = "socket" THEN SendErr(sock, peer) ELSE WriteErr(sock, peer)

\* Thread t is in the receive of a query.
InQueryReceive(t) ==
    th[t].pc \in {"recv", "read"} /\ th[t].op \in {"query", "get_id"}

\* C12: a send or receive that fails inside a command or query ends the
\* call: the caller gets the very exception the transport raised, and the
\* call neither writes nor reads anything after it; a command or query
\* writes its line once, and writes nothing while it waits for the reply.
C12_FailureIsTerminal ==
    [][\A t \in Threads :
        /\ (Sends(t) /\ TransportSendErr # "none") =>
              /\ last'.err = TransportSendErr
              /\ last'.cmd = 0
              /\ th'[t] = Idle
              /\ nsent' = nsent /\ rcvbuf' = rcvbuf /\ sock' = sock
        /\ (InQueryReceive(t) /\ th'[t] # th[t] /\ RecvErr(sock, peer) # "none") =>
              /\ last'.err = RecvErr(sock, peer)
              /\ th'[t] = Idle
              /\ nsent' = nsent /\ rcvbuf' = rcvbuf /\ sock' = sock
        /\ (InQueryReceive(t) /\ th'[t] # th[t] /\ last'.err = "socket.timeout") =>
              /\ th'[t] = Idle
              /\ nsent' = nsent /\ rcvbuf' = rcvbuf /\ sock' = sock
        /\ Sends(t) => nsent' \in {nsent, nsent + 1}
        /\ InQueryReceive(t) => nsent' = nsent]_vars

C12_Witness ==
    /\ variant = "socket"
    /\ last.op = "query"
    /\ last.err = "ConnectionResetError"
    /\ last.cmd = 2
    /\ nsent = 2
    /\ th[1] = Idle
    /\ [op |-> "send", err |-> "none"] \notin seen

\* C13: a command whose text has a character outside 0-127 fails with
\* UnicodeEncodeError (an EncodingError) before anything is written: no byte
\* reaches the channel, the connection is as it was, and nothing is received.
C13_EncodingErrorWritesNothing ==
    (frame.pc # "start" /\ \E i \in 1..Len(frame.text) : frame.text[i] >= 128) =>
        /\ frame.pc = "done"
        /\ frame.err = "UnicodeEncodeError"
        /\ Kind(frame.err) = "EncodingError"
        /\ frame.wire = <<>>
        /\ frame.raw = <<>>
        /\ frame.path = "none"
        /\ nsent = 0
        /\ sock = "open"

C13_Witness ==
    /\ variant = "GenericInstrumentTelnet"
    /\ frame.pc = "done"
    /\ frame.text = <<65, 233>>
    /\ frame.err = "UnicodeEncodeError"

\* C14: for every ASCII command text, the text sent (with its one
\* terminator) and read back from an instrument that echoes the bytes is
\* the text itself: _send and _receive on the socket, _query on Telnet.
C14_FramingRoundTrip ==
    (frame.pc = "done" /\ frame.err = "none" /\ frame.path \in {"_receive", "_query"}) =>
        frame.out = frame.text

\* C15: every read path of the core, the single read and the bulk read,
\* returns the bytes received with the white space at their end removed and
\* nothing else changed.
C15_ReplyOnlyRightStripped ==
    (frame.pc = "done" /\ frame.err = "none"
        /\ frame.path \in {"_receive", "_receive_all", "get_id"}) =>
        frame.out = RStripText(frame.raw)

\* C16: a command (_send, as reset() makes it, or the Telnet _write) that
\* the transport accepts writes exactly one command line, makes no receive
\* call, returns nothing, and leaves the bytes waiting on the receive side
\* where they are.
C16_CommandIsSendOnly ==
    [][\A t \in Threads :
        ((CallSend(t) \/ TnWrite(t)) /\ TransportSendErr = "none") =>
            /\ nsent' = nsent + 1
            /\ th'[t] = Idle
            /\ last'.op \in {"send", "write"}
            /\ last'.cmd = nsent'
            /\ last'.data = <<>>
            /\ last'.chunks = <<>>
            /\ sock' = sock
            /\ peer = "up" => rcvbuf' = rcvbuf]_vars

C16_Witness ==
    /\ variant = "socket"
    /\ last.op = "send"
    /\ last.err = "none"
    /\ last.cmd = nsent
    /\ peer = "up"
    /\ PendingReply

\* C17: on every Telnet class the start-up lines of the instrument are read
\* and dropped before the first line is written, so that no query returns
\* text of the start-up lines.
C17_BannerIsDrained ==
    (variant \in TelnetClasses /\ last.op = "query" /\ last.err = "none") =>
        \A i \in 1..Len(last.data) : last.data[i].id >= 1

\* C18: the identity is asked for once, by __init__, and kept: a later
\* get_id() writes no line and returns the string kept in _id_str.
C18_IdentityIsCached ==
    (variant = "socket" /\ last.op = "get_id" /\ last.err = "none") =>
        (last.cmd = 0 /\ last.data = idstr)

\* The state of connection c, whichever of the two the caller is working on.
ConnState(c) == IF other.name = c THEN other ELSE Current

\* C19: a step of one connection (construction, a command, a query, a
\* bulk read, close, a failure, the instrument going away) leaves the state
\* of the other connection, its unread bytes and its socket, as they were.
C19_ConnectionsAreIndependent ==
    [][\A c \in {1, 2} : c = other.name => ConnState(c)' = ConnState(c)]_vars

C19_Witness ==
    /\ other.obj = "ready"
    /\ other.sock = "open"
    /\ other.peer = "up"
    /\ \E i \in 1..Len(other.rcvbuf) : other.rcvbuf[i].id >= 1
    /\ obj = "ready"
    /\ sock = "closed"
    /\ last.op = "close"

\* C20: a Keithley2280 is constructed by asking the instrument ':OUTP?',
\* which sets the output flag the later calls (power_on, power_off,
\* set_voltage, set_current, ...) keep and go by: the constructor, once it
\* has run, has asked its one question and left a usable object.
C20_KeithleyOutputTracked ==
    (variant = "Keithley2280" /\ obj # "none") =>
        (obj = "ready" /\ last.op = "init" /\ last.err = "none" /\ nsent = 1)

\* C21: set_current1 and set_current2 write exactly one line, the source
\* level of their channel, with the smaller of the current asked for and
\* the limit: never more than the limit, and a current at or below the
\* limit, a negative one too, as it was asked for.
C21_CurrentIsClamped ==
    (variant = "Keithley2602" /\ drv.pc = "done") =>
        /\ Len(drv.lines) = 1
        /\ nsent = 2 + drv.n
        /\ drv.lines[1].cmd = SourceLevel(drv.ch)
        /\ drv.lines[1].val = Min(drv.current, drv.limit)
        /\ drv.lines[1].val <= drv.limit
        /\ drv.current <= drv.limit => drv.lines[1].val = drv.current

C21_Witness ==
    /\ variant = "Keithley2602"
    /\ drv.pc = "done"
    /\ drv.ch = 2
    /\ drv.limit = DefaultLimit
    /\ drv.current = DefaultLimit + 1
    /\ drv.lines[1].val = DefaultLimit
    /\ drv.n = 2

\* The lines and receive calls of a sweep so far are the four settings in
\* order, then polls, each a query followed by its receive.
SweepOrder(lines, count) ==
    \A i \in 1..Len(lines) :
        IF i <= 4 THEN lines[i] = SweepCommands(count)[i]
        ELSE lines[i] = (IF i % 2 = 1 THEN PollQuery ELSE Recv)

\* A reply that reports count sweeps or more is waiting to be received.
CountReported ==
    \E i \in 1..Len(rcvbuf) : rcvbuf[i].lo = 0 /\ rcvbuf[i].v >= drv.count

RmsOrder(lines, channel) ==
    \A i \in 1..Len(lines) :
        IF i = 1 THEN lines[i] = ModeCommand(channel)
        ELSE lines[i] = (IF i % 2 = 0 THEN RmsQuery(channel) ELSE Recv)

\* What is unread after a query has been written is of its own reply.
OnlyOwnReplyUnread == \A i \in 1..Len(rcvbuf) : rcvbuf[i].id = nsent

\* C23: measure_rms_voltage(channel, average) sends the mode command once,
\* then average times a query and a receive in turn, no query being sent
\* while a byte of the reply before is unread; it returns the sum of the
\* voltages reported divided by average, and for average = 0 it sends no
\* query and fails with ZeroDivisionError.
C23_RmsVoltageAverages ==
    (variant = "Siglent" /\ drv.pc # "idle") =>
        /\ RmsOrder(drv.lines, drv.channel)
        /\ drv.pc = "recv" => OnlyOwnReplyUnread
        /\ drv.how = "value" =>
               /\ drv.average # 0
               /\ Len(drv.lines) = 1 + 2 * (IF drv.average > 0 THEN drv.average ELSE 0)
               /\ drv.ret = [num |-> drv.told, den |-> drv.average]
        /\ (drv.average = 0 /\ drv.pc = "done") =>
               (drv.how = "ZeroDivisionError" /\ Len(drv.lines) = 1)

====
